---------------------------- MODULE Spec2Model ----------------------------
(***************************************************************************)
(* sphinx-mcq: the mcq directive (src/src/sphinx_mcq/__init__.py) and the  *)
(* two document transforms MCQChoices and MCQFeedback                      *)
(* (src/src/sphinx_mcq/transforms.py).                                     *)
(*                                                                         *)
(* The document tree is an arena: `nodes` is a sequence of node records,   *)
(* a node's identity is its index.  A node that replace_self() takes out   *)
(* of the tree stays in the arena with its children list and its parent    *)
(* reference, exactly as the Python object stays alive while a generator   *)
(* or a local variable still refers to it.  Node 1 is the document.        *)
(***************************************************************************)
EXTENDS Naturals, Sequences, FiniteSets

VARIABLES
    nodes,             \* the arena of docutils nodes
    env_mcq_count,     \* env._mcq_count (0: the attribute is missing or 0)
    build,             \* number of the current build on this environment
    directives,        \* the directives constructed in this build, in order
    pc,                \* where the build is
    pending,           \* transforms registered and not yet applied
    passes,            \* transforms whose apply() has been entered, in order
    run,               \* 1: first application of the pipeline, 2: second
    raised,            \* the exception that ended the build, or "none"
    warnings,          \* names of the Questions a logger.warning named
    gen_mcq,           \* generator of document.findall(mcq)
    mcq_node,          \* MCQChoices.apply: mcq_node
    gen_lists,         \* generator of mcq_node.findall(upper-alpha lists)
    answer_choices,    \* MCQChoices.apply: answer_choices
    item_i,            \* position of `for item in answer_choices.children`
    gen_choice_index,  \* how many letters gen_choice_index has handed out
    gen_choices,       \* generator of document.findall(mcq_choice)
    choice_node,       \* MCQFeedback.apply: choice_node
    gen_fields,        \* generator of choice_node.findall(is_feedback_field)
    parsed,            \* history: the arena as the parser left it
    found_in,          \* history: <<feedback node, choice_node>> pairs
    earlier,           \* history: directives constructed by earlier builds
    normalized         \* history: the arena after the first application

vars == <<nodes, env_mcq_count, build, directives, pc, pending, passes, run,
          raised, warnings, gen_mcq, mcq_node, gen_lists, answer_choices,
          item_i, gen_choice_index, gen_choices, choice_node, gen_fields,
          parsed, found_in, earlier, normalized>>

-----------------------------------------------------------------------------
(* Bounds of the model *)

\* size of a document: its Questions (mcq directives) and the list items
\* of their bodies, counted together
MaxSize == 3

\* builds run on one build environment
MaxBuilds == 2

-----------------------------------------------------------------------------
(* Program constants *)

choice_indexes ==
    << "A", "B", "C", "D", "E", "F", "G", "H", "I", "J", "K", "L", "M",
       "N", "O", "P", "Q", "R", "S", "T", "U", "V", "W", "X", "Y", "Z" >>

MCQChoices_priority == 200

MCQFeedback_priority == 201

\* a faulty variant of default_priority: the two priorities exchanged
exchanged_priority(t) ==
    IF t = "MCQChoices" THEN MCQFeedback_priority ELSE MCQChoices_priority

\* MCQChoices.default_priority, MCQFeedback.default_priority
default_priority(t) ==
    IF t = "MCQChoices" THEN MCQChoices_priority ELSE MCQFeedback_priority

\* setup(): app.add_transform(MCQChoices); app.add_transform(MCQFeedback)
Transforms == {"MCQChoices", "MCQFeedback"}

-----------------------------------------------------------------------------
(* Sequences *)

Range(s) == {s[i] : i \in 1..Len(s)}

\* list.index(x): the first position of x, 0 when x is not in the list
\* (Python raises ValueError there)
Index(s, x) ==
    IF x \in Range(s) THEN CHOOSE i \in 1..Len(s) :
                               s[i] = x /\ \A j \in 1..(i - 1) : s[j] # x
    ELSE 0

-----------------------------------------------------------------------------
(* docutils nodes *)

NoName == <<"", 0>>

\* a node of class `tag` with no children and no attribute set
Node(tag) ==
    [tag |-> tag, children |-> <<>>, parent |-> 0, atts |-> {},
     enumtype |-> "", answer |-> "", name |-> NoName, value |-> "",
     mcq_id |-> NoName, mcq_is_correct |-> FALSE, is_correct |-> FALSE,
     text |-> ""]

\* Element.__init__(rawsource, *children, **attributes): the new node is
\* appended to the arena (its id is Len(ns) + 1) and setup_child() makes it
\* the parent of each child.
Element(ns, rec, kids) ==
    LET id == Len(ns) + 1
    IN  Append([i \in 1..Len(ns) |->
                    IF i \in Range(kids) THEN [ns[i] EXCEPT !.parent = id]
                    ELSE ns[i]],
               [rec EXCEPT !.children = kids])

\* Element.replace(old, new) on node p, after the index of old was found
SetChild(ns, p, i, new) ==
    [ns EXCEPT ![p].children[i] = new, ![new].parent = p]

\* Node.replace_self(new) can be carried out: self is still among the
\* children of its parent (else list.index raises ValueError)
CanReplaceSelf(ns, old) ==
    /\ ns[old].parent # 0
    /\ Index(ns[ns[old].parent].children, old) # 0

\* Node.replace_self(new): new takes the place of old among the children of
\* old's parent; old keeps its parent reference and its children.
replace_self(ns, old, new) ==
    LET p == ns[old].parent
    IN  SetChild(ns, p, Index(ns[p].children, old), new)


-----------------------------------------------------------------------------
(* What the host parser (state.nested_parse) makes of a directive's body.  *)
(* A body is described by the lists it holds, a list by its enumeration    *)
(* style and its items, an item by the kinds of its blocks.                *)

\* the labels of the fields the model's documents use, as authored
FeedbackLabel == "feedback"

PaddedLabel == " Feedback "

OtherLabel == "remark"

\* str.strip().lower() on those labels
StripLower(text) == IF text = PaddedLabel THEN "feedback" ELSE text

\* The host parser's output is put together bottom-up from fragments: a
\* fragment is a subtree whose nodes are numbered from 1, its root last.

\* a fragment moved k places up the arena
Shift(frag, k) ==
    [i \in 1..Len(frag) |->
        [frag[i] EXCEPT
            !.children = [j \in 1..Len(frag[i].children) |->
                             frag[i].children[j] + k],
            !.parent = IF frag[i].parent = 0 THEN 0 ELSE frag[i].parent + k]]

RECURSIVE Join(_)
\* fragments side by side: [ns |-> their nodes, ids |-> their roots]
Join(frags) ==
    IF Len(frags) = 0 THEN [ns |-> <<>>, ids |-> <<>>]
    ELSE LET r == Join(SubSeq(frags, 1, Len(frags) - 1))
             f == frags[Len(frags)]
         IN  [ns |-> r.ns \o Shift(f, Len(r.ns)),
              ids |-> Append(r.ids, Len(r.ns) + Len(f))]

\* the node rec over the fragments of its children
Tree(rec, frags) ==
    LET j == Join(frags)
    IN  Element(j.ns, rec, j.ids)

Text(txt) == << [Node("Text") EXCEPT !.text = txt] >>

\* a paragraph holding one Text node
Paragraph(txt) == Tree(Node("paragraph"), << Text(txt) >>)

\* field(field_name(Text(label)), field_body(paragraph * paras))
Field(f) ==
    Tree(Node("field"),
         << Tree(Node("field_name"), << Text(f.label) >>),
            Tree(Node("field_body"), [i \in 1..f.paras |-> Paragraph("text")]) >>)

\* the field lists of the model's documents
FieldsOf(kind) ==
    CASE kind = "feedback" ->
            << [label |-> FeedbackLabel, paras |-> 1] >>
      [] kind = "remarks" ->
            << [label |-> OtherLabel, paras |-> 1],
               [label |-> PaddedLabel, paras |-> 2] >>
      [] kind = "feedback_twice" ->
            << [label |-> FeedbackLabel, paras |-> 1],
               [label |-> FeedbackLabel, paras |-> 1] >>

FieldList(kind) ==
    Tree(Node("field_list"),
         [i \in 1..Len(FieldsOf(kind)) |-> Field(FieldsOf(kind)[i])])

\* enumerated_list(enumtype=...)(list_item ...) over the items' fragments
EnumeratedList(enumtype, items) ==
    Tree([Node("enumerated_list") EXCEPT !.enumtype = enumtype,
                                         !.atts = {"enumtype"}],
         items)

\* an upper-alpha list inside a list item: one item with its feedback
NestedList ==
    EnumeratedList("upperalpha",
                   << Tree(Node("list_item"),
                           << Paragraph("text"), FieldList("feedback") >>) >>)

\* one block of a list item
Block(kind) ==
    CASE kind = "paragraph" -> Paragraph("text")
      [] kind \in {"feedback", "remarks", "feedback_twice"} -> FieldList(kind)
      [] kind = "block_quote" ->
            Tree(Node("block_quote"), << FieldList("feedback") >>)
      [] kind = "nested_list" -> NestedList

\* a list_item over its blocks
ListItem(shape) ==
    Tree(Node("list_item"), [i \in 1..Len(shape) |-> Block(shape[i])])

\* a list of the body, from its description
BodyList(desc) ==
    EnumeratedList(desc.enumtype,
                   [i \in 1..Len(desc.items) |-> ListItem(desc.items[i])])

\* the shapes of a list item the model's documents use
ItemShapes ==
    { <<"paragraph">>,                      \* no feedback
      <<"paragraph", "feedback">>,          \* feedback after the text
      <<"remarks", "paragraph">>,           \* feedback before the text
      <<"paragraph", "block_quote">>,       \* feedback inside a block quote
      <<"paragraph", "feedback_twice">>,    \* two feedback fields
      <<"paragraph", "nested_list">> }      \* an upper-alpha list inside

\* an ordinary numbered list
ArabicList == [enumtype |-> "arabic", items |-> << <<"paragraph", "feedback">> >>]

\* an upper-alpha list with one more item than there are letters
LongList ==
    [enumtype |-> "upperalpha",
     items |-> [i \in 1..(Len(choice_indexes) + 1) |-> <<"paragraph">>]]

\* the lists that take j of the document's items
ListsOfCost(j) ==
    {[enumtype |-> "upperalpha", items |-> s] : s \in [1..j -> ItemShapes]}
        \cup (IF j = 1 THEN {ArabicList, LongList} ELSE {})

RECURSIVE Bodies(_)
\* the bodies that take at most k of the document's items
Bodies(k) ==
    {<<>>} \cup UNION { {<<l>> \o b : l \in ListsOfCost(j), b \in Bodies(k - j)} :
                        j \in 1..k }

RECURSIVE Cost(_)
Cost(body) ==
    IF body = <<>> THEN 0
    ELSE (IF body[1] \in {ArabicList, LongList} THEN 1 ELSE Len(body[1].items))
         + Cost(Tail(body))

RECURSIVE Spent(_)
\* the size of the document the directives have made so far
Spent(ds) == IF ds = <<>> THEN 0 ELSE 1 + ds[1].cost + Spent(Tail(ds))

\* the values of the `answer` option the model's documents use
Answers == {"A", "B"}

\* an option is given once or not at all
Option(values) == {<<>>} \cup {<<v>> : v \in values}

\* the explicit values of the `name` option the model's documents use
Names == {<<"intro", 0>>}

-----------------------------------------------------------------------------
(* MCQDirective *)

\* a faulty variant of GeneratedName: the counter read before its increment
NameBeforeIncrement(count) == <<"mcq", count - 1>>

\* f"mcq-{self.env._mcq_count}"
GeneratedName(count) == <<"mcq", count>>

\* MCQDirective.__init__: the counter after `if not getattr(...): ... = 0`
\* and `+= 1`
NextCount(count) == (IF count = 0 THEN 0 ELSE count) + 1

\* MCQDirective.__init__: self.options["name"]
NameOption(name, count) ==
    IF name = <<>> THEN GeneratedName(count) ELSE name[1]

\* MCQDirective.run and the host inserting the returned node: the arena
\* with the Question appended to the document
RunDirective(ns, name, answer, body) ==
    LET mcq == [Node("mcq") EXCEPT
                   !.name = name,
                   !.answer = IF answer = <<>> THEN "" ELSE answer[1],
                   !.atts = {"ids"} \cup
                            (IF answer = <<>> THEN {} ELSE {"answer"})]
        question_prompt == Paragraph("prompt")
        \* body.children = [question_prompt, *body.children]: a plain list
        \* assignment, which leaves the prompt without a parent
        mcq_body ==
            [Tree(Node("mcq_body"),
                  <<question_prompt>> \o [i \in 1..Len(body) |-> BodyList(body[i])])
                EXCEPT ![Len(question_prompt)].parent = 0]
        node == Shift(Tree(mcq, <<mcq_body>>), Len(ns))
        all == ns \o node
    IN  [all EXCEPT ![1].children = Append(@, Len(all)), ![Len(all)].parent = 1]

\* the host's document before any directive has run
EmptyDocument == << Node("document") >>

\* MCQDirective.__init__ and run(), for an mcq directive with the given
\* `name` and `answer` options whose body parses to `body`
Directive(name, answer, body) ==
    /\ pc = "parse"
    /\ Spent(directives) + 1 + Cost(body) <= MaxSize
    /\ LET count == NextCount(env_mcq_count)
           given == NameOption(name, count)
       IN  /\ env_mcq_count' = count
           /\ nodes' = RunDirective(nodes, given, answer, body)
           /\ directives' = Append(directives,
                                   [name |-> given, generated |-> name = <<>>,
                                    node |-> Len(nodes') , cost |-> Cost(body)])
    /\ UNCHANGED <<build, pc, pending, passes, run, raised, warnings, gen_mcq,
                   mcq_node, gen_lists, answer_choices, item_i,
                   gen_choice_index, gen_choices, choice_node, gen_fields,
                   parsed, found_in, earlier, normalized>>

\* the host has parsed the whole document; the transforms come next
EndParse ==
    /\ pc = "parse"
    /\ pc' = "transforms"
    /\ parsed' = nodes
    /\ UNCHANGED <<nodes, env_mcq_count, build, directives, pending, passes,
                   run, raised, warnings, gen_mcq, mcq_node, gen_lists,
                   answer_choices, item_i, gen_choice_index, gen_choices,
                   choice_node, gen_fields, found_in, earlier, normalized>>

-----------------------------------------------------------------------------
(* Node.findall: a lazy pre-order walk.  The generator is a stack of       *)
(* frames <<node, position of the next child>>; each frame reads the       *)
(* node's children list as it is when the generator is resumed.            *)

\* the lambda of MCQChoices.apply
IsAnswerList(n) ==
    n.tag = "enumerated_list" /\ n.enumtype = "upperalpha"

\* field_name.astext()
astext(ns, n) == IF ns[n].children = <<>> THEN ""
                 ELSE ns[ns[n].children[1]].text

\* transforms.is_feedback_field
is_feedback_field(ns, n) ==
    /\ ns[n].tag = "field"
    /\ LET field_name == ns[n].children[1]
       IN  /\ ns[field_name].tag = "field_name"
           /\ StripLower(astext(ns, field_name)) = "feedback"

Matches(kind, ns, n) ==
    CASE kind = "mcq" -> ns[n].tag = "mcq"
      [] kind = "answer_list" -> IsAnswerList(ns[n])
      [] kind = "mcq_choice" -> ns[n].tag = "mcq_choice"
      [] kind = "feedback_field" -> is_feedback_field(ns, n)

\* a generator that has not been started, over the descendants of n
findall(n) == << <<n, 1>> >>

RECURSIVE Advance(_, _, _)
\* next(generator): [found |-> the node yielded (0: StopIteration),
\*                   stack |-> the generator afterwards]
Advance(kind, ns, stack) ==
    IF stack = <<>> THEN [found |-> 0, stack |-> <<>>]
    ELSE LET top == Len(stack)
             n == stack[top][1]
             i == stack[top][2]
         IN  IF i > Len(ns[n].children)
             THEN Advance(kind, ns, SubSeq(stack, 1, top - 1))
             ELSE LET child == ns[n].children[i]
                      next == Append([stack EXCEPT ![top] = <<n, i + 1>>],
                                     <<child, 1>>)
                  IN  IF Matches(kind, ns, child)
                      THEN [found |-> child, stack |-> next]
                      ELSE Advance(kind, ns, next)

-----------------------------------------------------------------------------
(* The host applies the registered transforms in the order of their        *)
(* priorities, each apply() running to its end before the next starts.     *)

ApplyTransform(t) ==
    /\ pc = "transforms"
    /\ t \in pending
    /\ \A u \in pending : default_priority(t) <= default_priority(u)
    /\ pending' = pending \ {t}
    /\ passes' = Append(passes, t)
    /\ IF t = "MCQChoices"
       THEN /\ pc' = "mcq"
            /\ gen_mcq' = findall(1)
            /\ UNCHANGED gen_choices
       ELSE /\ pc' = "choice"
            /\ gen_choices' = findall(1)
            /\ UNCHANGED gen_mcq
    /\ UNCHANGED <<nodes, env_mcq_count, build, directives, run, raised,
                   warnings, mcq_node, gen_lists, answer_choices, item_i,
                   gen_choice_index, choice_node, gen_fields, parsed,
                   found_in, earlier, normalized>>

\* every transform has been applied
Finish ==
    /\ pc = "transforms"
    /\ pending = {}
    /\ pc' = "done"
    /\ UNCHANGED <<nodes, env_mcq_count, build, directives, pending, passes,
                   run, raised, warnings, gen_mcq, mcq_node, gen_lists,
                   answer_choices, item_i, gen_choice_index, gen_choices,
                   choice_node, gen_fields, parsed, found_in, earlier, normalized>>

-----------------------------------------------------------------------------
(* MCQChoices.apply *)

\* for mcq_node in self.document.findall(mcq, include_self=False)
NextQuestion ==
    /\ pc = "mcq"
    /\ LET r == Advance("mcq", nodes, gen_mcq)
       IN  /\ gen_mcq' = r.stack
           /\ IF r.found = 0
              THEN /\ pc' = "transforms"
                   /\ UNCHANGED <<mcq_node, gen_lists>>
              ELSE /\ pc' = "answer_list"
                   /\ mcq_node' = r.found
                   /\ gen_lists' = findall(r.found)
    /\ UNCHANGED <<nodes, env_mcq_count, build, directives, pending, passes,
                   run, raised, warnings, answer_choices, item_i,
                   gen_choice_index, gen_choices, choice_node, gen_fields,
                   parsed, found_in, earlier, normalized>>

\* for answer_choices in mcq_node.findall(..., include_self=False), and
\* gen_choice_index = iter(self.choice_indexes)
NextAnswerList ==
    /\ pc = "answer_list"
    /\ LET r == Advance("answer_list", nodes, gen_lists)
       IN  /\ gen_lists' = r.stack
           /\ IF r.found = 0
              THEN /\ pc' = "mcq"
                   /\ UNCHANGED <<answer_choices, item_i, gen_choice_index>>
              ELSE /\ pc' = "item"
                   /\ answer_choices' = r.found
                   /\ item_i' = 1
                   /\ gen_choice_index' = 0
    /\ UNCHANGED <<nodes, env_mcq_count, build, directives, pending, passes,
                   run, raised, warnings, gen_mcq, mcq_node, gen_choices,
                   choice_node, gen_fields, parsed, found_in, earlier, normalized>>

\* choice_node.update_all_atts(item): the attributes of item the model
\* keeps are copied onto the new node
update_all_atts(choice, item) ==
    [choice EXCEPT !.atts = @ \cup item.atts,
                   !.mcq_id = item.mcq_id,
                   !.value = item.value,
                   !.mcq_is_correct = item.mcq_is_correct]

\* choice_node["value"] == mcq_node["answer"]
IsCorrect(value, answer) == value = answer

\* the body of `for item in answer_choices.children`, for one item:
\* [ns |-> the arena afterwards, raised |-> the exception or "none"]
TransformItem(ns, question, item, handed) ==
    LET \* choice_node = mcq_choice("", *item.children)
        a == Element(ns, Node("mcq_choice"), ns[item].children)
        choice == Len(a)
        b == [a EXCEPT ![choice] = update_all_atts(@, ns[item])]
        \* choice_node["mcq_id"] = mcq_node["ids"][0]
        c == [b EXCEPT ![choice].mcq_id = ns[question].name,
                       ![choice].atts = @ \cup {"mcq_id"}]
    IN  IF handed >= Len(choice_indexes)
        THEN \* next(gen_choice_index) on the exhausted iterator
             [ns |-> c, raised |-> "StopIteration"]
        ELSE LET value == choice_indexes[handed + 1]
                 d == [c EXCEPT ![choice].value = value,
                                ![choice].atts = @ \cup {"value"}]
             IN  IF "answer" \notin ns[question].atts
                 THEN \* mcq_node["answer"]: the attribute is not set
                      [ns |-> d, raised |-> "KeyError"]
                 ELSE LET e == [d EXCEPT
                                   ![choice].mcq_is_correct =
                                       IsCorrect(value, ns[question].answer),
                                   ![choice].atts = @ \cup {"mcq_is_correct"}]
                      IN  IF CanReplaceSelf(e, item)
                          THEN [ns |-> replace_self(e, item, choice),
                                raised |-> "none"]
                          ELSE [ns |-> e, raised |-> "ValueError"]

\* one turn of `for item in answer_choices.children`
TransformListItem ==
    /\ pc = "item"
    /\ item_i <= Len(nodes[answer_choices].children)
    /\ LET r == TransformItem(nodes, mcq_node,
                              nodes[answer_choices].children[item_i],
                              gen_choice_index)
       IN  /\ nodes' = r.ns
           /\ raised' = r.raised
           /\ pc' = IF r.raised = "none" THEN "item" ELSE "failed"
    /\ item_i' = item_i + 1
    /\ gen_choice_index' = IF gen_choice_index < Len(choice_indexes)
                           THEN gen_choice_index + 1 ELSE gen_choice_index
    /\ UNCHANGED <<env_mcq_count, build, directives, pending, passes, run,
                   warnings, gen_mcq, mcq_node, gen_lists, answer_choices,
                   gen_choices, choice_node, gen_fields, parsed, found_in,
                   earlier, normalized>>

\* a faulty variant of ChoicesList: the new list is one more upper-alpha
\* enumerated list
ListOfTheSameClass ==
    [Node("enumerated_list") EXCEPT !.enumtype = "upperalpha",
                                    !.atts = {"enumtype"}]

\* mcq_choices_list("", *answer_choices.children)
ChoicesList == Node("mcq_choices_list")

\* answer_choices.replace_self(mcq_choices_list("", *answer_choices.children))
ReplaceList(ns, list) ==
    LET a == Element(ns, ChoicesList, ns[list].children)
    IN  IF CanReplaceSelf(a, list)
        THEN [ns |-> replace_self(a, list, Len(a)), raised |-> "none"]
        ELSE [ns |-> a, raised |-> "ValueError"]

\* the items are through: the list is replaced
ReplaceAnswerList ==
    /\ pc = "item"
    /\ item_i > Len(nodes[answer_choices].children)
    /\ LET r == ReplaceList(nodes, answer_choices)
       IN  /\ nodes' = r.ns
           /\ raised' = r.raised
           /\ pc' = IF r.raised = "none" THEN "answer_list" ELSE "failed"
    /\ UNCHANGED <<env_mcq_count, build, directives, pending, passes, run,
                   warnings, gen_mcq, mcq_node, gen_lists, answer_choices,
                   item_i, gen_choice_index, gen_choices, choice_node,
                   gen_fields, parsed, found_in, earlier, normalized>>

-----------------------------------------------------------------------------
(* MCQFeedback.apply *)

\* for choice_node in self.document.findall(mcq_choice)
NextChoice ==
    /\ pc = "choice"
    /\ LET r == Advance("mcq_choice", nodes, gen_choices)
       IN  /\ gen_choices' = r.stack
           /\ IF r.found = 0
              THEN /\ pc' = "transforms"
                   /\ UNCHANGED <<choice_node, gen_fields>>
              ELSE /\ pc' = "feedback_field"
                   /\ choice_node' = r.found
                   /\ gen_fields' = findall(r.found)
    /\ UNCHANGED <<nodes, env_mcq_count, build, directives, pending, passes,
                   run, raised, warnings, gen_mcq, mcq_node, gen_lists,
                   answer_choices, item_i, gen_choice_index, parsed, found_in,
                   earlier, normalized>>

\* sphinx.util.docfields._is_single_paragraph(field_body)
\* (the model's documents hold no system_message)
is_single_paragraph(ns, body) ==
    /\ Len(ns[body].children) = 1
    /\ ns[ns[body].children[1]].tag = "paragraph"

\* the content MCQFeedback.apply collects from a feedback field
FeedbackContent(ns, field) ==
    LET field_name == ns[field].children[1]
        field_body == ns[field].children[2]
    IN  IF /\ ns[field_name].tag = "field_name"
           /\ StripLower(astext(ns, field_name)) = "feedback"
        THEN IF is_single_paragraph(ns, field_body)
             THEN ns[ns[field_body].children[1]].children
             ELSE ns[field_body].children
        ELSE <<>>

\* is_correct=choice_node["mcq_is_correct"]
FeedbackIsCorrect(choice) == choice.mcq_is_correct

\* the body of `for feedback_field in choice_node.findall(...)`:
\* [ns |-> the arena afterwards, feedback |-> the new node,
\*  raised |-> the exception or "none"]
TransformField(ns, choice, field) ==
    LET a == Element(ns, Node("paragraph"), FeedbackContent(ns, field))
        b == Element(a, [Node("mcq_choice_feedback") EXCEPT
                            !.is_correct = FeedbackIsCorrect(ns[choice]),
                            !.atts = {"is_correct"}],
                     <<Len(a)>>)
        field_list == ns[field].parent
    IN  IF CanReplaceSelf(b, field_list)
        THEN [ns |-> replace_self(b, field_list, Len(b)),
              feedback |-> Len(b), raised |-> "none"]
        ELSE [ns |-> b, feedback |-> Len(b), raised |-> "ValueError"]

\* one turn of `for feedback_field in choice_node.findall(is_feedback_field)`
NextFeedbackField ==
    /\ pc = "feedback_field"
    /\ LET r == Advance("feedback_field", nodes, gen_fields)
       IN  /\ gen_fields' = r.stack
           /\ IF r.found = 0
              THEN /\ pc' = "choice"
                   /\ UNCHANGED <<nodes, raised, found_in>>
              ELSE LET t == TransformField(nodes, choice_node, r.found)
                   IN  /\ nodes' = t.ns
                       /\ raised' = t.raised
                       /\ found_in' = found_in \cup {<<t.feedback, choice_node>>}
                       /\ pc' = IF t.raised = "none" THEN "feedback_field"
                                ELSE "failed"
    /\ UNCHANGED <<env_mcq_count, build, directives, pending, passes, run,
                   warnings, gen_mcq, mcq_node, gen_lists, answer_choices,
                   item_i, gen_choice_index, gen_choices, choice_node, parsed,
                   earlier, normalized>>

-----------------------------------------------------------------------------
(* Specifications *)

\* the state of a build that is about to parse its document
Fresh ==
    /\ nodes = EmptyDocument
    /\ directives = <<>>
    /\ pc = "parse"
    /\ pending = Transforms
    /\ passes = <<>>
    /\ run = 1
    /\ raised = "none"
    /\ gen_mcq = <<>>
    /\ mcq_node = 0
    /\ gen_lists = <<>>
    /\ answer_choices = 0
    /\ item_i = 0
    /\ gen_choice_index = 0
    /\ gen_choices = <<>>
    /\ choice_node = 0
    /\ gen_fields = <<>>
    /\ parsed = <<>>
    /\ found_in = {}
    /\ normalized = <<>>

Init ==
    /\ Fresh
    /\ env_mcq_count = 0
    /\ build = 1
    /\ earlier = 0
    /\ warnings = {}

\* an author's mcq directive without a `name`
Author ==
    \E answer \in Option(Answers) :
        \E body \in Bodies(MaxSize - 1) :
            Directive(<<>>, answer, body)

Next ==
    \/ Author
    \/ EndParse
    \/ \E t \in Transforms : ApplyTransform(t)
    \/ NextQuestion
    \/ NextAnswerList
    \/ TransformListItem
    \/ ReplaceAnswerList
    \/ NextChoice
    \/ NextFeedbackField
    \/ Finish

\* one build of one document
Spec == Init /\ [][Next]_vars

\* the transforms are applied once more to the tree they have normalized
Rerun ==
    /\ pc = "done"
    /\ run = 1
    /\ run' = 2
    /\ normalized' = nodes
    /\ pending' = Transforms
    /\ pc' = "transforms"
    /\ UNCHANGED <<nodes, env_mcq_count, build, directives, passes, raised,
                   warnings, gen_mcq, mcq_node, gen_lists, answer_choices,
                   item_i, gen_choice_index, gen_choices, choice_node,
                   gen_fields, parsed, found_in, earlier>>

NextTwice == Next \/ Rerun

\* one build whose transform pipeline is applied twice
SpecTwice == Init /\ [][NextTwice]_vars

\* the next build on the same build environment: a fresh document, and
\* env as the build before left it (nothing resets env._mcq_count)
NewBuild ==
    /\ pc \in {"done", "failed"}
    /\ build < MaxBuilds
    /\ build' = build + 1
    /\ earlier' = earlier + Len(directives)
    /\ nodes' = EmptyDocument
    /\ directives' = <<>>
    /\ pc' = "parse"
    /\ pending' = Transforms
    /\ passes' = <<>>
    /\ run' = 1
    /\ raised' = "none"
    /\ gen_mcq' = <<>>
    /\ mcq_node' = 0
    /\ gen_lists' = <<>>
    /\ answer_choices' = 0
    /\ item_i' = 0
    /\ gen_choice_index' = 0
    /\ gen_choices' = <<>>
    /\ choice_node' = 0
    /\ gen_fields' = <<>>
    /\ parsed' = <<>>
    /\ found_in' = {}
    /\ normalized' = <<>>
    /\ UNCHANGED <<env_mcq_count, warnings>>

\* an author's mcq directive with or without a `name`, its body plain text
AuthorNamed ==
    \E name \in Option(Names) : Directive(name, <<"A">>, <<>>)

NextIds ==
    \/ AuthorNamed
    \/ EndParse
    \/ \E t \in Transforms : ApplyTransform(t)
    \/ NextQuestion
    \/ NextAnswerList
    \/ NextChoice
    \/ Finish
    \/ NewBuild

\* several builds on one build environment
SpecIds == Init /\ [][NextIds]_vars

-----------------------------------------------------------------------------
(* Reading the tree *)

RECURSIVE Subtree(_, _)
\* n and everything below it, by the children lists
Subtree(ns, n) ==
    {n} \cup UNION {Subtree(ns, ns[n].children[i]) : i \in 1..Len(ns[n].children)}

\* the nodes of class tag in the document
InDocument(tag) == {n \in Subtree(nodes, 1) : nodes[n].tag = tag}

\* the Choices of Question q
ChoicesOf(q) == {n \in Subtree(nodes, q) : nodes[n].tag = "mcq_choice"}

RECURSIVE Owned(_)
\* what lies below node n short of the Choices nested in it
Owned(n) ==
    UNION {IF nodes[nodes[n].children[i]].tag = "mcq_choice"
           THEN {}
           ELSE {nodes[n].children[i]} \cup Owned(nodes[n].children[i]) :
           i \in 1..Len(nodes[n].children)}

\* the Feedback nodes of Choice c
FeedbackOf(c) == {n \in Owned(c) : nodes[n].tag = "mcq_choice_feedback"}

\* the upper-alpha lists the parser left inside Questions
AuthoredLists ==
    {l \in 1..Len(parsed) :
        /\ IsAnswerList(parsed[l])
        /\ \E q \in 1..Len(parsed) :
              parsed[q].tag = "mcq" /\ l \in Subtree(parsed, q) \ {q}}

\* MCQChoices.apply has returned or raised
Pass1Over ==
    /\ "MCQChoices" \in Range(passes)
    /\ pc \notin {"mcq", "answer_list", "item"}

\* MCQChoices.apply has returned
Pass1Completed ==
    /\ Pass1Over
    /\ pc = "failed" => "MCQFeedback" \in Range(passes)

\* both transforms have returned
BothCompleted == pc = "done"

-----------------------------------------------------------------------------
(* C1 *)

\* C1: after Pass 1, in every Question whose `answer` is the ordinal of one
\* of its Choices exactly one Choice is marked correct, and in every other
\* Question none is, however many upper-alpha lists the Question holds.
C1_OneCorrectChoice ==
    Pass1Completed =>
        \A q \in InDocument("mcq") :
            LET correct == {c \in ChoicesOf(q) : nodes[c].mcq_is_correct}
            IN  IF /\ "answer" \in nodes[q].atts
                   /\ \E c \in ChoicesOf(q) : nodes[c].value = nodes[q].answer
                THEN Cardinality(correct) = 1
                ELSE correct = {}

-----------------------------------------------------------------------------
(* C2 *)

\* the Feedback nodes among the children of Choice c
FeedbackChildren(c) ==
    {i \in 1..Len(nodes[c].children) :
        nodes[nodes[c].children[i]].tag = "mcq_choice_feedback"}

\* C2: after both passes every Choice of the document has exactly one
\* Feedback child (an empty one when the author gave no feedback).
C2_OneFeedbackPerChoice ==
    BothCompleted =>
        \A c \in InDocument("mcq_choice") : Cardinality(FeedbackChildren(c)) = 1

-----------------------------------------------------------------------------
(* C3 *)

\* list l, as the parser left it, now stands in the document as a Choices
\* List of as many Choices, lettered A, B, C, ... in order, each with as
\* many children as its list item had
IsChoicesListOf(c, l) ==
    /\ nodes[c].tag = "mcq_choices_list"
    /\ Len(nodes[c].children) = Len(parsed[l].children)
    /\ \A i \in 1..Len(nodes[c].children) :
          LET choice == nodes[nodes[c].children[i]]
          IN  /\ choice.tag = "mcq_choice"
              /\ choice.value = choice_indexes[i]
              /\ Len(choice.children) = Len(parsed[parsed[l].children[i]].children)

\* C3: after Pass 1 every upper-alpha list of 1 to 26 items inside a
\* Question has been replaced by a Choices List whose Choices carry the
\* first letters of the alphabet, in order.
C3_ListsBecomeLetteredChoices ==
    (Pass1Over /\ passes = <<"MCQChoices">>) =>
        \A l \in AuthoredLists :
            Len(parsed[l].children) \in 1..Len(choice_indexes) =>
                /\ l \notin Subtree(nodes, 1)
                /\ \E c \in Subtree(nodes, 1) : IsChoicesListOf(c, l)

-----------------------------------------------------------------------------
(* C4 *)

\* how many of the first i directives of this build had their name generated
GeneratedAmong(i) == Cardinality({j \in 1..i : directives[j].generated})

\* C4 as stated: the Questions without a `name` get mcq-1, mcq-2, ... in
\* authoring order, whatever named Questions stand among them.
C4_GeneratedIdsCountUnnamed ==
    \A i \in 1..Len(directives) :
        directives[i].generated =>
            directives[i].name = <<"mcq", GeneratedAmong(i)>>

\* C4 as amended: a Question without a `name` gets mcq-<n>, n being its
\* place among all the mcq directives constructed on the build environment
\* so far, named ones and those of earlier builds included; the generated
\* ids are distinct and grow in authoring order.
C4_GeneratedIdsCountDirectives ==
    /\ \A i \in 1..Len(directives) :
          directives[i].generated =>
              directives[i].name = <<"mcq", earlier + i>>
    /\ \A i, j \in 1..Len(directives) :
          (i < j /\ directives[i].generated /\ directives[j].generated)
              => directives[i].name[2] < directives[j].name[2]

\* a named Question precedes one without a name
C4_Witness ==
    /\ Len(directives) >= 2
    /\ ~directives[1].generated
    /\ directives[2].generated

-----------------------------------------------------------------------------
(* C5 *)

\* C5: the counter starts every build at zero, so a Question without a
\* `name` that is the first of its build gets mcq-1.
C5_CounterResetEachBuild ==
    /\ directives = <<>> => env_mcq_count = 0
    /\ (directives # <<>> /\ directives[1].generated)
          => directives[1].name = <<"mcq", 1>>

-----------------------------------------------------------------------------
(* C6 *)

\* C6: applying the two transforms to the tree they have normalized changes
\* nothing: no node is made, replaced or changed, and nothing is raised.
C6_SecondRunChangesNothing ==
    run = 2 => (nodes = normalized /\ raised = "none")

\* the second application has gone over a tree with Choices and Feedback
C6_Witness ==
    /\ run = 2
    /\ pc = "done"
    /\ InDocument("mcq_choice_feedback") # {}
    /\ \E c \in InDocument("mcq_choice") : FeedbackChildren(c) = {}

-----------------------------------------------------------------------------
(* C7 *)

\* C7: no document makes a transform raise.
C7_NothingIsRaised == raised = "none"

-----------------------------------------------------------------------------
(* C8 *)

\* C8: after both passes the Feedback of a Choice is the last of the
\* Choice's children.
C8_FeedbackIsLastChild ==
    BothCompleted =>
        \A c \in InDocument("mcq_choice") :
            \A f \in FeedbackOf(c) :
                nodes[c].children[Len(nodes[c].children)] = f

-----------------------------------------------------------------------------
(* C9 *)

\* C9: after Pass 1 a warning has named every Question that holds no
\* upper-alpha list, and that Question has no Choices List.
C9_WarningForMissingList ==
    Pass1Completed =>
        \A i \in 1..Len(directives) :
            (\A l \in AuthoredLists : l \notin Subtree(parsed, directives[i].node))
                => /\ directives[i].name \in warnings
                   /\ \A n \in Subtree(nodes, directives[i].node) :
                         nodes[n].tag # "mcq_choices_list"

-----------------------------------------------------------------------------
(* C10 *)

\* C10: once Pass 2 has started, Pass 1 has gone through the whole document
\* before it: every item of every upper-alpha list inside a Question is a
\* Choice of the document with its mcq_is_correct set, and every Feedback
\* Pass 2 makes has the is_correct of the Choice it was found in.
C10_Pass2AfterPass1 ==
    "MCQFeedback" \in Range(passes) =>
        /\ passes = <<"MCQChoices", "MCQFeedback">>
        /\ gen_mcq = <<>>
        /\ \A l \in AuthoredLists :
              /\ l \notin Subtree(nodes, 1)
              /\ \A i \in 1..Len(parsed[l].children) :
                    LET c == nodes[l].children[i]
                    IN  /\ c \in InDocument("mcq_choice")
                        /\ "mcq_is_correct" \in nodes[c].atts
        /\ \A p \in found_in :
              /\ "is_correct" \in nodes[p[1]].atts
              /\ nodes[p[1]].is_correct = nodes[p[2]].mcq_is_correct

\* Pass 2 is at work in the second of two Questions and has made the
\* Feedback of a correct Choice
C10_Witness ==
    /\ pc = "feedback_field"
    /\ Cardinality(InDocument("mcq")) = 2
    /\ \E p \in found_in : nodes[p[1]].is_correct
============================================================================
